---- MODULE Spec2Model ----
(***************************************************************************)
(* CamS3Library (src/src/CamS3Library.cpp, src/src/CamS3Library.h):        *)
(* the camera, the SD card and the PDM microphone of the M5Stack Unit      *)
(* CamS3, and the two orchestrated operations captureToSD and recordToSD.  *)
(*                                                                         *)
(* The library's objects are the variables cam_*, fb, sensor, sd_*, mic_*; *)
(* the drivers behind them (esp_camera, SD/SPI, I2S, heap) are black boxes *)
(* whose own state is the variables esp_*, SD_*, spi_*, i2s_* and whose    *)
(* outcomes (status codes, byte counts, blocking times) are inputs drawn   *)
(* with \E. The library is single-threaded: every operation is one action, *)
(* except Mic.record, whose polling loop is one action per iteration.      *)
(***************************************************************************)
EXTENDS Integers, Sequences, FiniteSets, TLC

VARIABLES
    \* CamS3_Camera (CamS3Library.h:87-98)
    cam_initialized,   \* _initialized
    cam_sensorType,    \* _sensorType
    fb,                \* camera_fb_t* fb: 0 is nullptr, n > 0 the driver's frame n
    fb_len,            \* fb->len of the frame fb points to (0 when fb is nullptr)
    sensor,            \* sensor_t* sensor is non-null
    \* esp_camera driver
    esp_inited,        \* esp_camera_init succeeded and no esp_camera_deinit since
    esp_fb_count,      \* size of the driver's frame pool (config.fb_count)
    esp_fb_out,        \* frames handed out by esp_camera_fb_get and not returned
    \* CamS3_SD (CamS3Library.h:556-560)
    sd_initialized,    \* _initialized
    sd_spiFreq,        \* _spiFreq
    sd_spi,            \* _spi is non-null
    sd_fileCounter,    \* _fileCounter
    \* SD / SPI driver
    SD_mounted,        \* SD.begin succeeded and no SD.end since
    spi_live,          \* SPIClass objects created with new and not deleted
    SD_file,           \* bytes in the file at the caller's path, -1 when absent
    \* CamS3_Mic (CamS3Library.h:451-457)
    mic_initialized,   \* _initialized
    mic_sampleRate,    \* _sampleRate
    mic_sampleBits,    \* _sampleBits
    mic_i2sHandle,     \* _i2sHandle is non-null
    \* I2S driver
    i2s_channels,      \* channels created by i2s_new_channel and not deleted
    i2s_bits,          \* data bit width the PDM RX channel was configured with
    \* Mic.record / recordToSD in progress (CamS3Library.cpp:327-397, 508-539)
    pc,                \* "idle", or "loop" inside the while loop of record
    caller,            \* "record" or "recordToSD": who runs the loop
    durationMs,
    totalSamples,
    samplesRecorded,
    elapsed,           \* millis() - startTime
    bufHigh,           \* highest byte offset of the buffer the driver stored to
    recBuf,            \* sample buffer of the call: "null", "live" or "freed"
    bufFrees,          \* free() calls made on that buffer
    \* the WAV file recordToSD wrote
    wavReq,            \* the header bytes handed to file.write, in order
    wavBytes,          \* the header-region bytes the card stored, in order
    wavPayloadReq,     \* payload bytes handed to file.write
    wavPayload,        \* payload bytes the card stored
    \* what the last completed operation returned and what the driver did in it
    lastOp,
    lastRet,
    io,                \* [opened, written, len, path, calls]
    beginArgs,         \* [initSD, initMic] of the last CamS3Library::begin
    \* the driver functions the last completed operation called
    cam_drv,           \* esp_camera_*
    sd_drv,            \* SD.*, File::*, SPIClass
    mic_drv,           \* i2s_*, malloc, free
    \* Camera.get() and Camera.free() calls that returned true so far
    getsOk,
    freesOk

camVars == <<cam_initialized, cam_sensorType, fb, fb_len, sensor,
             esp_inited, esp_fb_count, esp_fb_out>>
sdVars  == <<sd_initialized, sd_spiFreq, sd_spi, sd_fileCounter,
             SD_mounted, spi_live, SD_file>>
micVars == <<mic_initialized, mic_sampleRate, mic_sampleBits, mic_i2sHandle,
             i2s_channels, i2s_bits>>
recVars == <<pc, caller, durationMs, totalSamples, samplesRecorded, elapsed,
             bufHigh, recBuf, bufFrees>>
wavVars == <<wavReq, wavBytes, wavPayloadReq, wavPayload>>
obsVars == <<lastOp, lastRet, io, beginArgs>>
drvVars == <<cam_drv, sd_drv, mic_drv>>
cntVars == <<getsOk, freesOk>>
vars    == <<camVars, sdVars, micVars, recVars, wavVars, obsVars, drvVars, cntVars>>

----------------------------------------------------------------------------
(* Bounds of the model.                                                    *)

MaxFbCount == 2        \* largest fbCount passed to Camera.begin
MaxLen == 1            \* largest frame / data length in bytes
MaxFileSize == 2       \* appendFile is not called past this file size
MaxFiles == 1          \* generateFilename is not called past this counter
MaxGets == 2           \* Camera.get() is not counted past this many successes

(* Program constants.                                                      *)

CAMS3_SD_SPI_FREQ == 40000000
CAMS3_MIC_SAMPLE_RATE == 16000
CAMS3_MIC_SAMPLE_BITS == 16

NULL == 0

\* the default fbCount of CamS3_Camera::begin
DefaultFbCount == 2

\* CamS3_Mic::record: the grace added to durationMs, the samples one read asks
\* for at most, and the timeout of one i2s_channel_read
GraceMs == 1000
ChunkSamples == 1024
ReadTimeoutMs == 100
\* sizeof(int16_t)
SampleBytes == 2

\* the largest sample count asked of Mic.read, readBytes, getPeakAmplitude and
\* getRMSLevel
MaxSamples == 2

\* the number of generateFilename calls followed
MaxNames == 3
\* char filename[64] of generateFilename
FilenameSize == 64

SensorPIDs == {"OV5640_PID", "OV3660_PID", "OV2640_PID", "OTHER_PID"}
PixFormats == {"PIXFORMAT_JPEG", "PIXFORMAT_RGB565"}
SpiFreqs   == {CAMS3_SD_SPI_FREQ, 20000000}
\* a path argument: "user" is a path the caller names, "null" is nullptr
PathArgs   == {"user", "null"}
\* the values of a sample the microphone delivers: the ends of int16_t, the
\* silence and a tone
SampleValues == {-32768, -1000, 0, 1000, 32767}
\* arguments of generateFilename: the default prefix "IMG" and one of 61
\* characters; the extensions "jpg" and "wav"
Prefixes == {<<"I", "M", "G">>, [i \in 1..61 |-> "x"]}
Extensions == {<<"j", "p", "g">>, <<"w", "a", "v">>}
\* arguments of Mic.begin
SampleRates   == {CAMS3_MIC_SAMPLE_RATE, 44100}
SampleBitsSet == {CAMS3_MIC_SAMPLE_BITS, 32, 8}
\* arguments of Mic.record and recordToSD, in ms
Durations == {0, 1, 100}
\* time one i2s_channel_read blocks, in ms: from none to its whole timeout
ReadDelays == {0, 50, ReadTimeoutMs}
\* time that passes between two iterations of the loop of record, in ms
ClockSteps == {50}
\* arguments for the capacity computation of Mic.record alone
CapacityRates == {8000, CAMS3_MIC_SAMPLE_RATE, 22050, 44100, 48000}
CapacityDurations == {0, 1, 999, 1000, 1001, 60000, 89478, 89479, 268435, 268436,
                      300000, 3600000}

NoIO == [opened |-> FALSE, written |-> 0, len |-> 0, path |-> "none", calls |-> 0]
NoArgs == [initSD |-> FALSE, initMic |-> FALSE]

\* The variables of a record call describe the last call of Mic.record or
\* recordToSD; the next operation on the microphone or the card starts afresh.
ForgetRecord ==
    /\ pc' = "idle"
    /\ caller' = "none"
    /\ durationMs' = 0
    /\ totalSamples' = 0
    /\ samplesRecorded' = 0
    /\ elapsed' = 0
    /\ bufHigh' = 0
    /\ recBuf' = "null"
    /\ bufFrees' = 0
    /\ wavReq' = <<>>
    /\ wavBytes' = <<>>
    /\ wavPayloadReq' = 0
    /\ wavPayload' = 0

----------------------------------------------------------------------------
(* CamS3_Camera                                                            *)

\* the switch of CamS3_Camera::begin on sensor->id.PID
SensorTypeOf(pid) ==
    CASE pid = "OV5640_PID" -> "CAMS3_SENSOR_OV5640"
      [] pid = "OV3660_PID" -> "CAMS3_SENSOR_OV3660"
      [] pid = "OV2640_PID" -> "CAMS3_SENSOR_OV2640"
      [] OTHER              -> "CAMS3_SENSOR_UNKNOWN"

\* camera_config.fb_count as begin leaves it
ConfigFbCount(pixelFormat, fbCount) ==
    IF pixelFormat # "PIXFORMAT_JPEG" THEN 1 ELSE fbCount

\* esp_camera_fb_get: the frames the driver can hand out now; NULL (a timeout)
\* is always possible and is the only outcome once the pool is exhausted
FbGetOutcomes == {NULL} \cup ((1..esp_fb_count) \ esp_fb_out)

\* a begin that sets the peripheral up again whatever its state
AlreadyReadyNever(initialized) == FALSE

\* the guard `if (_initialized) return true` that opens Camera.begin, Mic.begin
\* and Sd.begin
AlreadyReady(initialized) == initialized

\* bool CamS3_Camera::begin(frameSize, pixelFormat, jpegQuality, fbCount),
\* called with a pixelFormat and an fbCount of the given sets, returning ret
CamS3_Camera_begin(pixelFormats, fbCounts, ret) ==
    IF AlreadyReady(cam_initialized)
    THEN /\ ret = TRUE
         /\ cam_drv' = {}
         /\ UNCHANGED camVars
    ELSE \E initOk \in BOOLEAN :
         IF ~initOk
         THEN \* esp_camera_init failed: the driver undoes its own work
              /\ ret = FALSE
              /\ esp_inited' = FALSE
              /\ esp_fb_out' = {}
              /\ cam_drv' = {"esp_camera_init"}
              /\ UNCHANGED <<cam_initialized, cam_sensorType, fb, fb_len, sensor,
                             esp_fb_count>>
         ELSE \E pixelFormat \in pixelFormats, fbCount \in fbCounts,
                 sensorOk \in BOOLEAN :
              /\ esp_inited' = TRUE
              /\ esp_fb_count' = ConfigFbCount(pixelFormat, fbCount)
              /\ esp_fb_out' = {}
              /\ sensor' = sensorOk
              /\ cam_drv' = {"esp_camera_init", "esp_camera_sensor_get"}
              /\ IF ~sensorOk
                 THEN /\ ret = FALSE
                      /\ UNCHANGED <<cam_initialized, cam_sensorType>>
                 ELSE \E pid \in SensorPIDs :
                      /\ ret = TRUE
                      /\ cam_sensorType' = SensorTypeOf(pid)
                      /\ cam_initialized' = TRUE
              /\ UNCHANGED <<fb, fb_len>>

\* Camera.begin(...) called by the sketch
CameraBegin ==
    /\ pc = "idle"
    /\ \E ret \in BOOLEAN :
        /\ CamS3_Camera_begin(PixFormats, 1..MaxFbCount, ret)
        /\ lastRet' = ret
    /\ lastOp' = "Camera.begin"
    /\ beginArgs' = NoArgs
    /\ io' = NoIO
    /\ sd_drv' = {}
    /\ mic_drv' = {}
    /\ UNCHANGED <<sdVars, micVars, recVars, wavVars, cntVars>>

\* a deinit that calls the driver whatever the state
DeinitAlways(initialized) == TRUE

\* the guard `if (!_initialized) return true` of deinit: the driver is called
\* only when the camera is initialized
DeinitNeeded(initialized) == initialized

\* fb left pointing into the frame pool that deinit released
FbAfterDeinitKept(frame) == frame

\* fb = nullptr at the end of a successful deinit
FbAfterDeinit(frame) == NULL

\* bool CamS3_Camera::deinit()
CameraDeinit ==
    /\ pc = "idle"
    /\ IF ~DeinitNeeded(cam_initialized)
       THEN /\ lastRet' = TRUE
            /\ cam_drv' = {}
            /\ UNCHANGED camVars
       ELSE \E deinitOk \in BOOLEAN :
        /\ cam_drv' = {"esp_camera_deinit"}
        /\ IF ~deinitOk
           THEN /\ lastRet' = FALSE
                /\ UNCHANGED camVars
           ELSE \* esp_camera_deinit frees the frame pool
                /\ esp_inited' = FALSE
                /\ esp_fb_out' = {}
                /\ cam_initialized' = FALSE
                /\ sensor' = FALSE
                /\ fb' = FbAfterDeinit(fb)
                /\ fb_len' = 0
                /\ lastRet' = TRUE
                /\ UNCHANGED <<cam_sensorType, esp_fb_count>>
    /\ lastOp' = "Camera.deinit"
    /\ beginArgs' = NoArgs
    /\ io' = NoIO
    /\ sd_drv' = {}
    /\ mic_drv' = {}
    /\ UNCHANGED <<sdVars, micVars, recVars, wavVars, cntVars>>

\* bool CamS3_Camera::get(), returning ret
CamS3_Camera_get(ret) ==
    IF ~cam_initialized
    THEN /\ ret = FALSE
         /\ cam_drv' = {}
         /\ UNCHANGED camVars
    ELSE \E f \in FbGetOutcomes, len \in 1..MaxLen :
         /\ ret = (f # NULL)
         /\ fb' = f
         /\ fb_len' = IF f = NULL THEN 0 ELSE len
         /\ esp_fb_out' = IF f = NULL THEN esp_fb_out ELSE esp_fb_out \cup {f}
         /\ cam_drv' = {"esp_camera_fb_get"}
         /\ UNCHANGED <<cam_initialized, cam_sensorType, sensor,
                        esp_inited, esp_fb_count>>

\* Camera.get() called by the sketch
CameraGet ==
    /\ pc = "idle"
    /\ \E ret \in BOOLEAN :
        /\ CamS3_Camera_get(ret)
        /\ lastRet' = ret
    /\ lastOp' = "Camera.get"
    /\ beginArgs' = NoArgs
    /\ io' = NoIO
    /\ sd_drv' = {}
    /\ mic_drv' = {}
    /\ UNCHANGED <<sdVars, micVars, recVars, wavVars, cntVars>>

\* a frame handed back whether or not one is checked out
HoldsFrameAlways(frame) == TRUE

\* the test `if (fb)` of CamS3_Camera::free
HoldsFrame(frame) == frame # NULL

\* fb left pointing at the frame that was handed back
FbAfterFreeKept(frame) == frame

\* fb = nullptr after esp_camera_fb_return(fb)
FbAfterFree(frame) == NULL

\* bool CamS3_Camera::free(), returning ret
CamS3_Camera_free(ret) ==
    IF HoldsFrame(fb)
    THEN \* esp_camera_fb_return(fb); fb = nullptr
         /\ ret = TRUE
         /\ esp_fb_out' = esp_fb_out \ {fb}
         /\ fb' = FbAfterFree(fb)
         /\ fb_len' = 0
         /\ cam_drv' = {"esp_camera_fb_return"}
         /\ UNCHANGED <<cam_initialized, cam_sensorType, sensor,
                        esp_inited, esp_fb_count>>
    ELSE /\ ret = FALSE
         /\ cam_drv' = {}
         /\ UNCHANGED camVars

\* Camera.free() called by the sketch
CameraFree ==
    /\ pc = "idle"
    /\ \E ret \in BOOLEAN :
        /\ CamS3_Camera_free(ret)
        /\ lastRet' = ret
    /\ lastOp' = "Camera.free"
    /\ beginArgs' = NoArgs
    /\ io' = NoIO
    /\ sd_drv' = {}
    /\ mic_drv' = {}
    /\ UNCHANGED <<sdVars, micVars, recVars, wavVars, cntVars>>

\* Camera.get() and Camera.free() with the calls that returned true counted
CountedGet ==
    /\ pc = "idle"
    /\ getsOk < MaxGets
    /\ \E ret \in BOOLEAN :
        /\ CamS3_Camera_get(ret)
        /\ lastRet' = ret
        /\ getsOk' = IF ret THEN getsOk + 1 ELSE getsOk
    /\ lastOp' = "Camera.get"
    /\ beginArgs' = NoArgs
    /\ io' = NoIO
    /\ sd_drv' = {}
    /\ mic_drv' = {}
    /\ UNCHANGED <<sdVars, micVars, recVars, wavVars, freesOk>>

CountedFree ==
    /\ pc = "idle"
    /\ \E ret \in BOOLEAN :
        /\ CamS3_Camera_free(ret)
        /\ lastRet' = ret
        /\ freesOk' = IF ret THEN freesOk + 1 ELSE freesOk
    /\ lastOp' = "Camera.free"
    /\ beginArgs' = NoArgs
    /\ io' = NoIO
    /\ sd_drv' = {}
    /\ mic_drv' = {}
    /\ UNCHANGED <<sdVars, micVars, recVars, wavVars, getsOk>>

----------------------------------------------------------------------------
(* CamS3_SD                                                                *)

\* an SPIClass object left allocated where the code deletes it
DeleteSpiForgotten(live) == live

\* delete _spi: one SPIClass object fewer
DeleteSpi(live) == live - 1

\* SD.end(): the volume is unmounted
SdEndDriver(mounted) == FALSE

\* bool CamS3_SD::begin(spiFreq), called with a spiFreq of the given set,
\* returning ret
CamS3_SD_begin(spiFreqs, ret) ==
    IF AlreadyReady(sd_initialized)
    THEN /\ ret = TRUE
         /\ sd_drv' = {}
         /\ UNCHANGED sdVars
    ELSE \E spiFreq \in spiFreqs, mountOk \in BOOLEAN, cardPresent \in BOOLEAN :
          /\ sd_spiFreq' = spiFreq
          /\ IF ~mountOk
             THEN \* new SPIClass; SD.begin fails; delete _spi
                  /\ ret = FALSE
                  /\ spi_live' = DeleteSpi(spi_live + 1)
                  /\ sd_spi' = FALSE
                  /\ sd_drv' = {"new SPIClass", "SPIClass::begin", "SD.begin",
                                "delete SPIClass"}
                  /\ UNCHANGED <<sd_initialized, SD_mounted>>
             ELSE IF ~cardPresent
             THEN \* cardType() is CARD_NONE: SD.end(); delete _spi
                  /\ ret = FALSE
                  /\ spi_live' = DeleteSpi(spi_live + 1)
                  /\ sd_spi' = FALSE
                  /\ SD_mounted' = SdEndDriver(TRUE)
                  /\ sd_drv' = {"new SPIClass", "SPIClass::begin", "SD.begin",
                                "SD.cardType", "SD.end", "delete SPIClass"}
                  /\ UNCHANGED sd_initialized
             ELSE /\ ret = TRUE
                  /\ spi_live' = spi_live + 1
                  /\ sd_spi' = TRUE
                  /\ SD_mounted' = TRUE
                  /\ sd_initialized' = TRUE
                  /\ sd_drv' = {"new SPIClass", "SPIClass::begin", "SD.begin",
                                "SD.cardType", "SD.totalBytes"}
          /\ UNCHANGED <<sd_fileCounter, SD_file>>

\* Sd.begin(spiFreq) called by the sketch
SdBegin ==
    /\ pc = "idle"
    /\ \E ret \in BOOLEAN :
        /\ CamS3_SD_begin(SpiFreqs, ret)
        /\ lastRet' = ret
    /\ lastOp' = "Sd.begin"
    /\ beginArgs' = NoArgs
    /\ io' = NoIO
    /\ cam_drv' = {}
    /\ mic_drv' = {}
    /\ ForgetRecord
    /\ UNCHANGED <<camVars, micVars, cntVars>>

\* void CamS3_SD::end()
SdEnd ==
    /\ pc = "idle"
    /\ IF sd_initialized
       THEN /\ SD_mounted' = SdEndDriver(SD_mounted)
            /\ spi_live' = IF sd_spi THEN DeleteSpi(spi_live) ELSE spi_live
            /\ sd_spi' = FALSE
            /\ sd_initialized' = FALSE
            /\ sd_drv' = {"SD.end"} \cup
                         (IF sd_spi THEN {"SPIClass::end", "delete SPIClass"} ELSE {})
            /\ UNCHANGED <<sd_spiFreq, sd_fileCounter, SD_file>>
       ELSE /\ sd_drv' = {}
            /\ UNCHANGED sdVars
    /\ lastOp' = "Sd.end"
    /\ beginArgs' = NoArgs
    /\ lastRet' = TRUE
    /\ io' = NoIO
    /\ cam_drv' = {}
    /\ mic_drv' = {}
    /\ ForgetRecord
    /\ UNCHANGED <<camVars, micVars, cntVars>>

\* a write taken as done as soon as the card stored anything
WrittenSome(written, len) == written > 0

\* the test `written != len` of writeFile and `written == len` of appendFile
WrittenAll(written, len) == written = len

\* String CamS3_SD::generateFilename(prefix, extension): the counter after it
GenerateFilename(counter) == counter + 1

\* the file at the caller's path after open(path, mode) and one write that
\* stored `written` bytes: FILE_WRITE truncates, FILE_APPEND keeps what is there
FileAfter(mode, written) ==
    IF mode = "FILE_WRITE" \/ SD_file = -1 THEN written ELSE SD_file + written

\* the body of writeFile / appendFile once _initialized is known to hold:
\* SD.open, file.write, file.close, and the returned value
OpenWriteClose(mode, pathArg, len, openOk, written) ==
    IF ~openOk
    THEN /\ lastRet' = FALSE
         /\ io' = [opened |-> FALSE, written |-> 0, len |-> len,
                   path |-> pathArg, calls |-> 1]
         /\ sd_drv' = {"SD.open"}
         /\ SD_file' = SD_file
    ELSE /\ lastRet' = WrittenAll(written, len)
         /\ io' = [opened |-> TRUE, written |-> written, len |-> len,
                   path |-> pathArg, calls |-> 3]
         /\ sd_drv' = {"SD.open", "File::write", "File::close"}
         /\ SD_file' = IF pathArg = "user" THEN FileAfter(mode, written) ELSE SD_file

\* bool CamS3_SD::writeFile(path, data, len)
SdWriteFile ==
    /\ pc = "idle"
    /\ IF ~sd_initialized
       THEN /\ lastRet' = FALSE
            /\ io' = NoIO
            /\ sd_drv' = {}
            /\ UNCHANGED SD_file
       ELSE \E len \in 0..MaxLen, openOk \in BOOLEAN :
            \E written \in 0..len :
            OpenWriteClose("FILE_WRITE", "user", len, openOk, written)
    /\ lastOp' = "Sd.writeFile"
    /\ beginArgs' = NoArgs
    /\ cam_drv' = {}
    /\ mic_drv' = {}
    /\ UNCHANGED <<sd_initialized, sd_spiFreq, sd_spi, sd_fileCounter, SD_mounted, spi_live>>
    /\ UNCHANGED <<camVars, micVars, recVars, wavVars, cntVars>>

\* bool CamS3_SD::appendFile(path, data, len)
SdAppendFile ==
    /\ pc = "idle"
    /\ IF ~sd_initialized
       THEN /\ lastRet' = FALSE
            /\ io' = NoIO
            /\ sd_drv' = {}
            /\ UNCHANGED SD_file
       ELSE \E len \in 0..MaxLen, openOk \in BOOLEAN :
            \E written \in 0..len :
            /\ SD_file + len <= MaxFileSize
            /\ OpenWriteClose("FILE_APPEND", "user", len, openOk, written)
    /\ lastOp' = "Sd.appendFile"
    /\ beginArgs' = NoArgs
    /\ cam_drv' = {}
    /\ mic_drv' = {}
    /\ UNCHANGED <<sd_initialized, sd_spiFreq, sd_spi, sd_fileCounter, SD_mounted, spi_live>>
    /\ UNCHANGED <<camVars, micVars, recVars, wavVars, cntVars>>

\* the body of saveFrame(frame, path) for a frame of `len` bytes
SaveFrame(frame, len, pathArg, openOk, written) ==
    IF ~sd_initialized \/ frame = NULL
    THEN /\ lastRet' = FALSE
         /\ io' = NoIO
         /\ sd_drv' = {}
         /\ UNCHANGED <<SD_file, sd_fileCounter>>
    ELSE /\ sd_fileCounter' = IF pathArg = "null"
                              THEN GenerateFilename(sd_fileCounter)
                              ELSE sd_fileCounter
         /\ OpenWriteClose("FILE_WRITE", pathArg, len, openOk, written)

\* bool CamS3_SD::saveFrame(fb, path), called with Camera.fb
SdSaveFrame ==
    /\ pc = "idle"
    /\ IF ~sd_initialized \/ fb = NULL
       THEN SaveFrame(fb, fb_len, "user", FALSE, 0)
       ELSE \E pathArg \in PathArgs, openOk \in BOOLEAN :
            \E written \in 0..fb_len :
            /\ pathArg = "null" => sd_fileCounter < MaxFiles
            /\ SaveFrame(fb, fb_len, pathArg, openOk, written)
    /\ lastOp' = "Sd.saveFrame"
    /\ beginArgs' = NoArgs
    /\ cam_drv' = {}
    /\ mic_drv' = {}
    /\ UNCHANGED <<sd_initialized, sd_spiFreq, sd_spi, SD_mounted, spi_live>>
    /\ UNCHANGED <<camVars, micVars, recVars, wavVars, cntVars>>

\* a file operation that goes to the card whatever the state
SdNotReadyNever(initialized) == FALSE

\* the guard `if (!_initialized) return ...` that opens exists, remove, rename,
\* mkdir, rmdir, readFile and getFileSize
SdNotReady(initialized) == ~initialized

\* exists, remove, rename, mkdir and rmdir: the guard, then the one call of
\* the SD object whose result is returned. The path is the caller's file
\* ("file") or a directory ("dir"); a file that is removed or renamed is no
\* longer at the caller's path.
SdPassThrough(op, call, target) ==
    /\ pc = "idle"
    /\ IF SdNotReady(sd_initialized)
       THEN /\ lastRet' = FALSE
            /\ sd_drv' = {}
            /\ UNCHANGED SD_file
       ELSE \E ok \in (IF target = "file" THEN {SD_file # -1} ELSE BOOLEAN) :
            /\ lastRet' = ok
            /\ sd_drv' = {call}
            /\ SD_file' = IF ok /\ call \in {"SD.remove", "SD.rename"}
                          THEN -1
                          ELSE SD_file
    /\ lastOp' = op
    /\ beginArgs' = NoArgs
    /\ io' = NoIO
    /\ cam_drv' = {}
    /\ mic_drv' = {}
    /\ UNCHANGED <<sd_initialized, sd_spiFreq, sd_spi, sd_fileCounter, SD_mounted, spi_live>>
    /\ UNCHANGED <<camVars, micVars, recVars, wavVars, cntVars>>

\* bool CamS3_SD::exists(path)
SdExists == SdPassThrough("Sd.exists", "SD.exists", "file")
\* bool CamS3_SD::remove(path)
SdRemove == SdPassThrough("Sd.remove", "SD.remove", "file")
\* bool CamS3_SD::rename(pathFrom, pathTo)
SdRename == SdPassThrough("Sd.rename", "SD.rename", "file")
\* bool CamS3_SD::mkdir(path)
SdMkdir == SdPassThrough("Sd.mkdir", "SD.mkdir", "dir")
\* bool CamS3_SD::rmdir(path)
SdRmdir == SdPassThrough("Sd.rmdir", "SD.rmdir", "dir")

\* readFile(path, buffer, maxLen) and getFileSize(path): the guard, SD.open
\* for reading, which fails when there is no file, then file.read (at most
\* maxLen bytes, at most the file's) or file.size, and file.close
SdOpenRead(op, call) ==
    /\ pc = "idle"
    /\ IF SdNotReady(sd_initialized)
       THEN /\ lastRet' = -1
            /\ io' = NoIO
            /\ sd_drv' = {}
       ELSE \E openOk \in (IF SD_file = -1 THEN {FALSE} ELSE BOOLEAN),
               maxLen \in 0..MaxLen :
            IF ~openOk
            THEN /\ lastRet' = -1
                 /\ io' = [opened |-> FALSE, written |-> 0, len |-> maxLen,
                           path |-> "user", calls |-> 1]
                 /\ sd_drv' = {"SD.open"}
            ELSE \E bytesRead \in 0..(IF SD_file < maxLen THEN SD_file ELSE maxLen) :
                 /\ lastRet' = IF call = "File::read" THEN bytesRead ELSE SD_file
                 /\ io' = [opened |-> TRUE, written |-> 0, len |-> maxLen,
                           path |-> "user", calls |-> 3]
                 /\ sd_drv' = {"SD.open", call, "File::close"}
    /\ lastOp' = op
    /\ beginArgs' = NoArgs
    /\ cam_drv' = {}
    /\ mic_drv' = {}
    /\ UNCHANGED <<sdVars, camVars, micVars, recVars, wavVars, cntVars>>

\* int32_t CamS3_SD::readFile(path, buffer, maxLen)
SdReadFile == SdOpenRead("Sd.readFile", "File::read")
\* int64_t CamS3_SD::getFileSize(path)
SdGetFileSize == SdOpenRead("Sd.getFileSize", "File::size")

\* the decimal digits of n, as %lu prints them
RECURSIVE Digits(_)
Digits(n) ==
    LET d == <<"0", "1", "2", "3", "4", "5", "6", "7", "8", "9">>[(n % 10) + 1]
    IN  IF n < 10 THEN <<d>> ELSE Append(Digits(n \div 10), d)

\* the text of the format "/%s_%lu_%lu.%s"
Formatted(prefix, ms, counter, extension) ==
    <<"/">> \o prefix \o <<"_">> \o Digits(ms) \o <<"_">> \o Digits(counter)
      \o <<".">> \o extension

\* snprintf(filename, size, ...): at most size - 1 characters are kept
Snprintf(size, text) ==
    SubSeq(text, 1, IF Len(text) > size - 1 THEN size - 1 ELSE Len(text))

\* the calls of generateFilename so far, oldest first
Returned == IF lastOp = "Sd.generateFilename" THEN io.returned ELSE <<>>

\* String CamS3_SD::generateFilename(prefix, extension): millis() is at the
\* start 9 ms and does not go back between two calls
SdGenerateFilename ==
    /\ pc = "idle"
    /\ sd_fileCounter < MaxNames
    /\ \E prefix \in Prefixes, extension \in Extensions, step \in {0, 1} :
        LET ms == IF Returned = <<>> THEN 9 ELSE Returned[Len(Returned)].ms + step
            name == Snprintf(FilenameSize,
                             Formatted(prefix, ms, GenerateFilename(sd_fileCounter),
                                       extension))
        IN  /\ sd_fileCounter' = GenerateFilename(sd_fileCounter)
            /\ lastRet' = name
            /\ io' = [returned |-> Append(Returned,
                          [prefix |-> prefix, extension |-> extension,
                           ms |-> ms, name |-> name])]
    /\ lastOp' = "Sd.generateFilename"
    /\ beginArgs' = NoArgs
    /\ cam_drv' = {}
    /\ sd_drv' = {}
    /\ mic_drv' = {}
    /\ UNCHANGED <<sd_initialized, sd_spiFreq, sd_spi, SD_mounted, spi_live, SD_file>>
    /\ UNCHANGED <<camVars, micVars, recVars, wavVars, cntVars>>

----------------------------------------------------------------------------
(* 32-bit unsigned arithmetic. A uint32_t is [hi, lo], two 16-bit halves:  *)
(* the values past 2^31 - 1 are no integers of the model checker.          *)

ToU32(n) == [hi |-> n \div 65536, lo |-> n % 65536]

\* a * b in uint32_t (the product modulo 2^32), by 8-bit digits
MulU32(a, b) ==
    LET a0 == a.lo % 256  a1 == a.lo \div 256
        a2 == a.hi % 256  a3 == a.hi \div 256
        b0 == b.lo % 256  b1 == b.lo \div 256
        b2 == b.hi % 256  b3 == b.hi \div 256
        p0 == a0 * b0
        p1 == a0 * b1 + a1 * b0 + p0 \div 256
        p2 == a0 * b2 + a1 * b1 + a2 * b0 + p1 \div 256
        p3 == a0 * b3 + a1 * b2 + a2 * b1 + a3 * b0 + p2 \div 256
    IN  [hi |-> (p3 % 256) * 256 + (p2 % 256), lo |-> (p1 % 256) * 256 + (p0 % 256)]

\* u / k in uint32_t for a divisor k of three decimal digits: the quotient
\* is an integer of the model checker
DivU32(u, k) ==
    (u.hi \div k) * 65536 + ((u.hi % k) * 65536 + u.lo) \div k

----------------------------------------------------------------------------
(* CamS3_Mic                                                               *)

\* slot_cfg.data_bit_width of CamS3_Mic::begin
DataBitWidth(sampleBits) == IF sampleBits = 32 THEN 32 ELSE 16

\* _i2sHandle left pointing at the channel that was deleted
HandleAfterDeleteKept(handle) == handle

\* _i2sHandle = nullptr after i2s_del_channel(_i2sHandle)
HandleAfterDelete(handle) == FALSE

\* a channel left allocated where the code deletes it
I2sDelChannelForgotten(channels) == channels

\* i2s_del_channel(_i2sHandle): one channel fewer
I2sDelChannel(channels) == channels - 1

\* bool CamS3_Mic::begin(sampleRate, sampleBits), called with arguments of the
\* given sets, returning ret; `step` is the driver step that fails, if any
CamS3_Mic_begin(sampleRates, sampleBitsArgs, ret) ==
    IF AlreadyReady(mic_initialized)
    THEN /\ ret = TRUE
         /\ mic_drv' = {}
         /\ UNCHANGED micVars
    ELSE \E sampleRate \in sampleRates, sampleBits \in sampleBitsArgs,
            step \in {"ok", "new_channel", "init_pdm_rx", "enable"} :
         /\ mic_sampleRate' = sampleRate
         /\ mic_sampleBits' = sampleBits
         /\ IF step = "new_channel"
            THEN \* i2s_new_channel failed: no channel, _i2sHandle as it was
                 /\ ret = FALSE
                 /\ mic_drv' = {"i2s_new_channel"}
                 /\ UNCHANGED <<mic_initialized, mic_i2sHandle, i2s_channels, i2s_bits>>
            ELSE IF step = "init_pdm_rx"
            THEN \* i2s_del_channel(_i2sHandle); _i2sHandle = nullptr
                 /\ ret = FALSE
                 /\ i2s_channels' = I2sDelChannel(i2s_channels + 1)
                 /\ mic_i2sHandle' = HandleAfterDelete(TRUE)
                 /\ mic_drv' = {"i2s_new_channel", "i2s_channel_init_pdm_rx_mode",
                                "i2s_del_channel"}
                 /\ UNCHANGED <<mic_initialized, i2s_bits>>
            ELSE IF step = "enable"
            THEN /\ ret = FALSE
                 /\ i2s_channels' = I2sDelChannel(i2s_channels + 1)
                 /\ mic_i2sHandle' = HandleAfterDelete(TRUE)
                 /\ i2s_bits' = DataBitWidth(sampleBits)
                 /\ mic_drv' = {"i2s_new_channel", "i2s_channel_init_pdm_rx_mode",
                                "i2s_channel_enable", "i2s_del_channel"}
                 /\ UNCHANGED mic_initialized
            ELSE /\ ret = TRUE
                 /\ i2s_channels' = i2s_channels + 1
                 /\ mic_i2sHandle' = TRUE
                 /\ i2s_bits' = DataBitWidth(sampleBits)
                 /\ mic_initialized' = TRUE
                 /\ mic_drv' = {"i2s_new_channel", "i2s_channel_init_pdm_rx_mode",
                                "i2s_channel_enable"}

\* Mic.begin(sampleRate, sampleBits) called by the sketch
MicBegin ==
    /\ pc = "idle"
    /\ \E ret \in BOOLEAN :
        /\ CamS3_Mic_begin(SampleRates, SampleBitsSet, ret)
        /\ lastRet' = ret
    /\ lastOp' = "Mic.begin"
    /\ beginArgs' = NoArgs
    /\ io' = NoIO
    /\ cam_drv' = {}
    /\ sd_drv' = {}
    /\ ForgetRecord
    /\ UNCHANGED <<camVars, sdVars, cntVars>>

\* void CamS3_Mic::end()
MicEnd ==
    /\ pc = "idle"
    /\ IF mic_initialized /\ mic_i2sHandle
       THEN /\ i2s_channels' = I2sDelChannel(i2s_channels)
            /\ mic_i2sHandle' = FALSE
            /\ mic_initialized' = FALSE
            /\ mic_drv' = {"i2s_channel_disable", "i2s_del_channel"}
            /\ UNCHANGED <<mic_sampleRate, mic_sampleBits, i2s_bits>>
       ELSE /\ mic_drv' = {}
            /\ UNCHANGED micVars
    /\ lastOp' = "Mic.end"
    /\ beginArgs' = NoArgs
    /\ lastRet' = TRUE
    /\ io' = NoIO
    /\ cam_drv' = {}
    /\ sd_drv' = {}
    /\ ForgetRecord
    /\ UNCHANGED <<camVars, sdVars, cntVars>>

\* size_t totalSamples = (_sampleRate * durationMs) / 1000, in uint32_t
TotalSamples(sampleRate, duration) ==
    DivU32(MulU32(ToU32(sampleRate), ToU32(duration)), 1000)

\* the loop going on at the deadline itself
LoopCondInclusive ==
    /\ samplesRecorded < totalSamples
    /\ elapsed <= durationMs + GraceMs

\* the loop going on until the deadline, however many samples it has
LoopCondDeadlineOnly ==
    elapsed < durationMs + GraceMs

\* the condition of the while loop of record
LoopCond ==
    /\ samplesRecorded < totalSamples
    /\ elapsed < durationMs + GraceMs

\* a read of a whole chunk, whatever remains
ToReadWholeChunk(remaining) == ChunkSamples

\* size_t toRead = (remaining > 1024) ? 1024 : remaining
ToRead(remaining) == IF remaining > ChunkSamples THEN ChunkSamples ELSE remaining

\* bytesRead of one i2s_channel_read asked for n bytes: nothing, all of them,
\* or one byte less (an odd count when n is even)
BytesOutcomes(n) == {0, n} \cup (IF n > 0 THEN {n - 1} ELSE {})

\* the entry of record up to the loop: nullptr when malloc fails
EnterRecord(who, duration, mallocOk) ==
    /\ caller' = who
    /\ durationMs' = duration
    /\ totalSamples' = TotalSamples(mic_sampleRate, duration)
    /\ samplesRecorded' = 0
    /\ elapsed' = 0
    /\ bufHigh' = 0
    /\ bufFrees' = 0
    /\ recBuf' = IF mallocOk THEN "live" ELSE "null"
    /\ pc' = IF mallocOk THEN "loop" ELSE "idle"
    /\ lastOp' = IF mallocOk THEN "running" ELSE who
    /\ beginArgs' = NoArgs
    /\ lastRet' = FALSE
    /\ io' = NoIO
    /\ cam_drv' = {}
    /\ sd_drv' = {}
    /\ mic_drv' = {"malloc"}
    /\ wavReq' = <<>>
    /\ wavBytes' = <<>>
    /\ wavPayloadReq' = 0
    /\ wavPayload' = 0

\* a call that returns before record allocates anything
ReturnEarly(who) ==
    /\ lastOp' = who
    /\ beginArgs' = NoArgs
    /\ lastRet' = FALSE
    /\ io' = NoIO
    /\ cam_drv' = {}
    /\ sd_drv' = {}
    /\ mic_drv' = {}
    /\ caller' = who
    /\ durationMs' = 0
    /\ totalSamples' = 0
    /\ samplesRecorded' = 0
    /\ elapsed' = 0
    /\ bufHigh' = 0
    /\ bufFrees' = 0
    /\ recBuf' = "null"
    /\ pc' = "idle"
    /\ wavReq' = <<>>
    /\ wavBytes' = <<>>
    /\ wavPayloadReq' = 0
    /\ wavPayload' = 0

\* int16_t* CamS3_Mic::record(durationMs, outSamples), up to its loop, for a
\* durationMs of the set ds
MicRecordOf(ds) ==
    /\ pc = "idle"
    /\ IF ~mic_initialized
       THEN ReturnEarly("Mic.record")
       ELSE \E duration \in ds, mallocOk \in BOOLEAN :
            EnterRecord("Mic.record", duration, mallocOk)
    /\ UNCHANGED <<camVars, sdVars, micVars, cntVars>>

MicRecord == MicRecordOf(Durations)

\* the card's readiness left untested
NotReadyFirstOnly(first, sd) == ~first

\* the two guards that open captureToSD and recordToSD: the camera (the
\* microphone) is not initialized, or the SD is not
NotReady(first, sd) == ~first \/ ~sd

\* bool CamS3Library::recordToSD(path, durationMs), up to the loop of record,
\* for a durationMs of the set ds
RecordToSDOf(ds) ==
    /\ pc = "idle"
    /\ IF NotReady(mic_initialized, sd_initialized)
       THEN ReturnEarly("recordToSD")
       ELSE \E duration \in ds, mallocOk \in BOOLEAN :
            EnterRecord("recordToSD", duration, mallocOk)
    /\ UNCHANGED <<camVars, sdVars, micVars, cntVars>>

RecordToSD == RecordToSDOf(Durations)

\* one iteration of the loop of record: one i2s_channel_read
RecordRead ==
    /\ pc = "loop"
    /\ LoopCond
    /\ LET toRead == ToRead(totalSamples - samplesRecorded) IN
       \E errOk \in BOOLEAN, bytesRead \in BytesOutcomes(toRead * SampleBytes),
          t \in ReadDelays :
        /\ bufHigh' = IF samplesRecorded * SampleBytes + bytesRead > bufHigh
                      THEN samplesRecorded * SampleBytes + bytesRead
                      ELSE bufHigh
        /\ samplesRecorded' = IF errOk
                              THEN samplesRecorded + (bytesRead \div SampleBytes)
                              ELSE samplesRecorded
        /\ elapsed' = elapsed + t
    /\ mic_drv' = mic_drv \cup {"i2s_channel_read"}
    /\ UNCHANGED <<pc, caller, durationMs, totalSamples, recBuf, bufFrees>>
    /\ UNCHANGED <<camVars, sdVars, micVars, wavVars, obsVars, cam_drv, sd_drv, cntVars>>

\* the clock moves on while the loop runs
ClockTick ==
    /\ pc = "loop"
    /\ LoopCond
    /\ \E step \in ClockSteps : elapsed' = elapsed + step
    /\ UNCHANGED <<pc, caller, durationMs, totalSamples, samplesRecorded,
                   bufHigh, recBuf, bufFrees>>
    /\ UNCHANGED <<camVars, sdVars, micVars, wavVars, obsVars, drvVars, cntVars>>

\* the target count reported in place of the captured count
OutSamplesTarget == totalSamples

\* *outSamples = samplesRecorded
OutSamples == samplesRecorded

\* record leaves its loop and returns the buffer to the caller of Mic.record
MicRecordReturn ==
    /\ pc = "loop"
    /\ caller = "Mic.record"
    /\ ~LoopCond
    /\ pc' = "idle"
    /\ lastOp' = "Mic.record"
    /\ beginArgs' = NoArgs
    /\ lastRet' = TRUE
    /\ io' = NoIO
    /\ UNCHANGED <<caller, durationMs, totalSamples, samplesRecorded, elapsed,
                   bufHigh, recBuf, bufFrees>>
    /\ UNCHANGED <<camVars, sdVars, micVars, wavVars, drvVars, cntVars>>

\* void CamS3_Mic::freeSamples(buffer), by the caller of Mic.record
MicFreeSamples ==
    /\ pc = "idle"
    /\ caller = "Mic.record"
    /\ recBuf = "live"
    /\ recBuf' = "freed"
    /\ bufFrees' = bufFrees + 1
    /\ lastOp' = "Mic.freeSamples"
    /\ beginArgs' = NoArgs
    /\ lastRet' = TRUE
    /\ io' = NoIO
    /\ cam_drv' = {}
    /\ sd_drv' = {}
    /\ mic_drv' = {"free"}
    /\ UNCHANGED <<pc, caller, durationMs, totalSamples, samplesRecorded, elapsed, bufHigh>>
    /\ UNCHANGED <<camVars, sdVars, micVars, wavVars, cntVars>>

----------------------------------------------------------------------------
(* CamS3_Mic: single reads and the two level meters                       *)

\* what the last read or meter call did: the sample count asked for, whether
\* the caller's buffer was null, the outcome of i2s_channel_read (its esp_err_t
\* and bytesRead), how many times the driver was called, the scratch buffer
\* ("none", "null" when malloc failed, "freed", "live") and the samples delivered
ReadIO(requested, bufferNull, errOk, bytesRead, calls, scratch, data) ==
    [requested |-> requested, bufferNull |-> bufferNull, errOk |-> errOk,
     bytesRead |-> bytesRead, calls |-> calls, scratch |-> scratch, data |-> data]

\* the byte count returned as if it were a sample count
SamplesOfBytes(bytesRead) == bytesRead

\* return bytesRead / sizeof(int16_t)
SamplesOf(bytesRead) == bytesRead \div SampleBytes

\* the value of CamS3_Mic::read(buffer, samples, timeoutMs) once the guard is
\* passed and i2s_channel_read has returned
ReadResult(errOk, bytesRead) == IF ~errOk THEN -1 ELSE SamplesOf(bytesRead)

\* the samples a read of bytesRead bytes leaves in the buffer, each one of
\* the given values
Delivered(bytesRead, values) == [1..(bytesRead \div SampleBytes) -> values]

\* int32_t CamS3_Mic::read(buffer, samples, timeoutMs), for a sample count of
\* the given set
MicReadOf(counts) ==
    /\ pc = "idle"
    /\ \E samples \in counts, bufferNull \in BOOLEAN :
        IF ~mic_initialized \/ bufferNull
        THEN /\ lastRet' = -1
             /\ io' = ReadIO(samples, bufferNull, FALSE, 0, 0, "none", <<>>)
             /\ mic_drv' = {}
        ELSE \E errOk \in BOOLEAN, bytesRead \in 0..(samples * SampleBytes) :
             /\ lastRet' = ReadResult(errOk, bytesRead)
             /\ io' = ReadIO(samples, bufferNull, errOk, bytesRead, 1, "none", <<>>)
             /\ mic_drv' = {"i2s_channel_read"}
    /\ lastOp' = "Mic.read"
    /\ beginArgs' = NoArgs
    /\ cam_drv' = {}
    /\ sd_drv' = {}
    /\ UNCHANGED <<camVars, sdVars, micVars, recVars, wavVars, cntVars>>

MicRead == MicReadOf(0..MaxSamples)

\* int32_t CamS3_Mic::readBytes(buffer, len, timeoutMs), for a len of the given
\* set
MicReadBytesOf(lens) ==
    /\ pc = "idle"
    /\ \E len \in lens, bufferNull \in BOOLEAN :
        IF ~mic_initialized \/ bufferNull
        THEN /\ lastRet' = -1
             /\ io' = ReadIO(len, bufferNull, FALSE, 0, 0, "none", <<>>)
             /\ mic_drv' = {}
        ELSE \E errOk \in BOOLEAN, bytesRead \in 0..len :
             /\ lastRet' = IF ~errOk THEN -1 ELSE bytesRead
             /\ io' = ReadIO(len, bufferNull, errOk, bytesRead, 1, "none", <<>>)
             /\ mic_drv' = {"i2s_channel_read"}
    /\ lastOp' = "Mic.readBytes"
    /\ beginArgs' = NoArgs
    /\ cam_drv' = {}
    /\ sd_drv' = {}
    /\ UNCHANGED <<camVars, sdVars, micVars, recVars, wavVars, cntVars>>

MicReadBytes == MicReadBytesOf(0..(MaxSamples * SampleBytes))

\* the conversion of an int to int16_t: the value modulo 2^16
ToInt16(v) == ((v + 32768) % 65536) - 32768

\* int16_t absVal = abs(buffer[i])
AbsVal(x) == ToInt16(IF x < 0 THEN -x ELSE x)

\* the loop of getPeakAmplitude from sample i on, peak being the int16_t
\* maximum so far
RECURSIVE PeakFrom(_, _, _)
PeakFrom(buffer, i, peak) ==
    IF i > Len(buffer) THEN peak
    ELSE PeakFrom(buffer, i + 1,
                  IF AbsVal(buffer[i]) > peak THEN AbsVal(buffer[i]) ELSE peak)

\* int16_t peak = 0; the loop; return (uint16_t)peak
PeakAmplitude(buffer) == PeakFrom(buffer, 1, 0) % 65536

\* the largest r of lo..hi with r * r <= x
RECURSIVE IsqrtBetween(_, _, _)
IsqrtBetween(x, lo, hi) ==
    IF lo = hi THEN lo
    ELSE LET mid == (lo + hi + 1) \div 2
         IN  IF mid * mid <= x THEN IsqrtBetween(x, mid, hi)
             ELSE IsqrtBetween(x, lo, mid - 1)

\* the sums over the buffer, from sample i on, of the quotients and of the
\* remainders of the squares by n
RECURSIVE SumQuot(_, _, _)
SumQuot(buffer, i, n) ==
    IF i > Len(buffer) THEN 0
    ELSE ((buffer[i] * buffer[i]) \div n) + SumQuot(buffer, i + 1, n)

RECURSIVE SumRem(_, _, _)
SumRem(buffer, i, n) ==
    IF i > Len(buffer) THEN 0
    ELSE ((buffer[i] * buffer[i]) % n) + SumRem(buffer, i + 1, n)

\* floor(sumSquares / readSamples), sumSquares being the int64_t sum of the
\* squares: the sum is formed from the quotients and the remainders
MeanSquare(buffer) ==
    LET n == Len(buffer)
    IN  SumQuot(buffer, 1, n) + (SumRem(buffer, 1, n) \div n)

\* (uint16_t)sqrt((double)sumSquares / readSamples): the square root cut to
\* an integer
RMSLevel(buffer) == IsqrtBetween(MeanSquare(buffer), 0, 32768)

\* the common course of getPeakAmplitude(samples) and getRMSLevel(samples):
\* the guard, the scratch buffer, one read of it, the reduction of what was
\* delivered, free; the sample count is one of the given set and the
\* microphone delivers samples of the given values
MicMeter(op, counts, values) ==
    /\ pc = "idle"
    /\ \E samples \in counts :
        IF ~mic_initialized
        THEN /\ lastRet' = 0
             /\ io' = ReadIO(samples, FALSE, FALSE, 0, 0, "none", <<>>)
             /\ mic_drv' = {}
        ELSE \E mallocOk \in BOOLEAN :
             IF ~mallocOk
             THEN /\ lastRet' = 0
                  /\ io' = ReadIO(samples, TRUE, FALSE, 0, 0, "null", <<>>)
                  /\ mic_drv' = {"malloc"}
             ELSE \E errOk \in BOOLEAN, bytesRead \in 0..(samples * SampleBytes) :
                  \E data \in Delivered(IF errOk THEN bytesRead ELSE 0, values) :
                  /\ lastRet' = IF ReadResult(errOk, bytesRead) <= 0
                                THEN 0
                                ELSE IF op = "Mic.getPeakAmplitude"
                                THEN PeakAmplitude(data)
                                ELSE RMSLevel(data)
                  /\ io' = ReadIO(samples, FALSE, errOk, bytesRead, 1, "freed", data)
                  /\ mic_drv' = {"malloc", "i2s_channel_read", "free"}
    /\ lastOp' = op
    /\ beginArgs' = NoArgs
    /\ cam_drv' = {}
    /\ sd_drv' = {}
    /\ UNCHANGED <<camVars, sdVars, micVars, recVars, wavVars, cntVars>>

\* uint16_t CamS3_Mic::getPeakAmplitude(samples)
MicGetPeakAmplitude == MicMeter("Mic.getPeakAmplitude", 0..MaxSamples, SampleValues)

\* uint16_t CamS3_Mic::getRMSLevel(samples)
MicGetRMSLevel == MicMeter("Mic.getRMSLevel", 0..MaxSamples, SampleValues)

----------------------------------------------------------------------------
(* The WAV container recordToSD writes                                     *)

\* file.write((const uint8_t*)&v, 4) and (..., 2): little-endian bytes
LE32(v) == <<v % 256, (v \div 256) % 256, (v \div 65536) % 256, (v \div 16777216) % 256>>
LE16(v) == <<v % 256, (v \div 256) % 256>>

\* the four-character tags, as ASCII
TagRIFF == <<82, 73, 70, 70>>
TagWAVE == <<87, 65, 86, 69>>
TagFmt  == <<102, 109, 116, 32>>
TagData == <<100, 97, 116, 97>>

\* uint32_t dataSize = numSamples * (bitsPerSample / 8)
DataSize(numSamples, bitsPerSample) == numSamples * (bitsPerSample \div 8)
\* uint32_t byteRate = sampleRate * numChannels * (bitsPerSample / 8)
ByteRate(sampleRate, numChannels, bitsPerSample) ==
    sampleRate * numChannels * (bitsPerSample \div 8)
\* uint16_t blockAlign = numChannels * (bitsPerSample / 8)
BlockAlign(numChannels, bitsPerSample) == (numChannels * (bitsPerSample \div 8)) % 65536

\* the thirteen header writes of recordToSD, in order
WavHeaderWrites(sampleRate, bitsPerSample, numSamples) ==
    LET numChannels == 1
        dataSize == DataSize(numSamples, bitsPerSample)
    IN  << TagRIFF, LE32(36 + dataSize), TagWAVE,
           TagFmt, LE32(16), LE16(1), LE16(numChannels), LE32(sampleRate),
           LE32(ByteRate(sampleRate, numChannels, bitsPerSample)),
           LE16(BlockAlign(numChannels, bitsPerSample)), LE16(bitsPerSample),
           TagData, LE32(dataSize) >>

\* the bytes of the writes, one after the other
RECURSIVE Flatten(_)
Flatten(ws) == IF ws = <<>> THEN <<>> ELSE Head(ws) \o Flatten(Tail(ws))

\* what the card keeps of write number i of n bytes, when write number shortAt
\* is the one it cuts short (0: none is)
Stored(i, n, shortAt, dropAll) ==
    IF i # shortAt THEN n
    ELSE IF dropAll \/ n = 0 THEN 0
    ELSE n - 1

----------------------------------------------------------------------------
(* CamS3Library                                                            *)

\* bool CamS3Library::captureToSD(path)
CaptureToSD ==
    /\ pc = "idle"
    /\ IF NotReady(cam_initialized, sd_initialized)
       THEN /\ lastRet' = FALSE
            /\ io' = NoIO
            /\ cam_drv' = {}
            /\ sd_drv' = {}
            /\ UNCHANGED <<fb, fb_len, esp_fb_out, SD_file, sd_fileCounter>>
       ELSE \E f \in FbGetOutcomes :
            /\ IF f = NULL
               THEN \* Camera.get() stored the driver's nullptr in fb and failed
                    /\ fb' = NULL
                    /\ fb_len' = 0
                    /\ lastRet' = FALSE
                    /\ io' = NoIO
                    /\ cam_drv' = {"esp_camera_fb_get"}
                    /\ sd_drv' = {}
                    /\ UNCHANGED <<esp_fb_out, SD_file, sd_fileCounter>>
               ELSE \* Camera.get() put frame f in fb; saveFrame; Camera.free()
                    \E pathArg \in PathArgs, len \in 1..MaxLen, openOk \in BOOLEAN :
                    \E written \in 0..len :
                    /\ pathArg = "null" => sd_fileCounter < MaxFiles
                    /\ SaveFrame(f, len, pathArg, openOk, written)
                    /\ esp_fb_out' = (esp_fb_out \cup {f}) \ {f}
                    /\ fb' = NULL
                    /\ fb_len' = 0
                    /\ cam_drv' = {"esp_camera_fb_get", "esp_camera_fb_return"}
    /\ lastOp' = "captureToSD"
    /\ beginArgs' = NoArgs
    /\ mic_drv' = {}
    /\ UNCHANGED <<cam_initialized, cam_sensorType, sensor, esp_inited, esp_fb_count>>
    /\ UNCHANGED <<sd_initialized, sd_spiFreq, sd_spi, SD_mounted, spi_live>>
    /\ UNCHANGED <<micVars, recVars, wavVars, cntVars>>

\* a begin that goes on to the card and the microphone whatever the camera did
CameraFailedIgnored(camOk) == FALSE

\* the test `if (!camOk) return false` of the two begin overloads
CameraFailed(camOk) == ~camOk

\* the result of the microphone left out of the returned value
BeginResultSdOnly(sdOk, micOk) == sdOk

\* return sdOk && micOk
BeginResult(sdOk, micOk) == sdOk /\ micOk

\* bool CamS3Library::begin(bool initSD, bool initMic): Camera.begin(), then
\* Sd.begin() and Mic.begin() as asked, each with its default arguments
LibBegin ==
    /\ pc = "idle"
    /\ \E initSD \in BOOLEAN, initMic \in BOOLEAN :
       \E camOk \in BOOLEAN, sdOk \in BOOLEAN, micOk \in BOOLEAN :
        /\ CamS3_Camera_begin({"PIXFORMAT_JPEG"}, {DefaultFbCount}, camOk)
        /\ IF CameraFailed(camOk)
           THEN \* if (!camOk) return false
                /\ sdOk /\ micOk
                /\ lastRet' = FALSE
                /\ sd_drv' = {}
                /\ mic_drv' = {}
                /\ UNCHANGED <<sdVars, micVars>>
           ELSE /\ IF initSD
                   THEN CamS3_SD_begin({CAMS3_SD_SPI_FREQ}, sdOk)
                   ELSE /\ sdOk
                        /\ sd_drv' = {}
                        /\ UNCHANGED sdVars
                /\ IF initMic
                   THEN CamS3_Mic_begin({CAMS3_MIC_SAMPLE_RATE},
                                        {CAMS3_MIC_SAMPLE_BITS}, micOk)
                   ELSE /\ micOk
                        /\ mic_drv' = {}
                        /\ UNCHANGED micVars
                /\ lastRet' = BeginResult(sdOk, micOk)
        /\ beginArgs' = [initSD |-> initSD, initMic |-> initMic]
    /\ lastOp' = "begin"
    /\ io' = NoIO
    /\ ForgetRecord
    /\ UNCHANGED cntVars

\* bool CamS3Library::begin(bool initSD): Camera.begin(), then Sd.begin() if
\* asked, each with its default arguments
LibBeginSd ==
    /\ pc = "idle"
    /\ \E initSD \in BOOLEAN :
       \E camOk \in BOOLEAN, sdOk \in BOOLEAN :
        /\ CamS3_Camera_begin({"PIXFORMAT_JPEG"}, {DefaultFbCount}, camOk)
        /\ IF CameraFailed(camOk)
           THEN \* if (!camOk) return false
                /\ sdOk
                /\ lastRet' = FALSE
                /\ sd_drv' = {}
                /\ UNCHANGED sdVars
           ELSE IF initSD
           THEN \* return Sd.begin()
                /\ CamS3_SD_begin({CAMS3_SD_SPI_FREQ}, sdOk)
                /\ lastRet' = sdOk
           ELSE /\ sdOk
                /\ lastRet' = TRUE
                /\ sd_drv' = {}
                /\ UNCHANGED sdVars
        /\ beginArgs' = [initSD |-> initSD, initMic |-> FALSE]
    /\ lastOp' = "begin(initSD)"
    /\ io' = NoIO
    /\ mic_drv' = {}
    /\ ForgetRecord
    /\ UNCHANGED <<micVars, cntVars>>

\* the value recordToSD returns once the file is written and closed
RecordToSDResult(written, requested) == TRUE

\* a recording taken as failed only when there is no buffer
RecordingFailedNoBuffer(samplesNull, numSamples) == samplesNull

\* the test `!samples || numSamples == 0` of recordToSD
RecordingFailed(samplesNull, numSamples) == samplesNull \/ numSamples = 0

\* bool CamS3Library::recordToSD(path, durationMs), from the return of record
RecordToSDFinish ==
    /\ pc = "loop"
    /\ caller = "recordToSD"
    /\ ~LoopCond
    /\ pc' = "idle"
    /\ lastOp' = "recordToSD"
    /\ beginArgs' = NoArgs
    /\ LET numSamples == OutSamples IN
       IF RecordingFailed(recBuf = "null", numSamples)
       THEN \* "Recording failed": return false
            /\ lastRet' = FALSE
            /\ io' = NoIO
            /\ UNCHANGED <<recBuf, bufFrees, wavVars, drvVars>>
       ELSE \E openOk \in BOOLEAN :
            IF ~openOk
            THEN \* SD.open failed: Mic.freeSamples(samples); return false
                 /\ recBuf' = "freed"
                 /\ bufFrees' = bufFrees + 1
                 /\ lastRet' = FALSE
                 /\ io' = [opened |-> FALSE, written |-> 0, len |-> 0,
                           path |-> "wav", calls |-> 1]
                 /\ sd_drv' = {"SD.open"}
                 /\ mic_drv' = mic_drv \cup {"free"}
                 /\ UNCHANGED <<wavVars, cam_drv>>
            ELSE \E shortAt \in 0..14, dropAll \in BOOLEAN :
                 LET ws == WavHeaderWrites(mic_sampleRate, mic_sampleBits, numSamples)
                     dataSize == DataSize(numSamples, mic_sampleBits)
                     kept == [i \in 1..13 |->
                                SubSeq(ws[i], 1, Stored(i, Len(ws[i]), shortAt, dropAll))]
                 IN  /\ wavReq' = Flatten(ws)
                     /\ wavBytes' = Flatten(kept)
                     /\ wavPayloadReq' = dataSize
                     /\ wavPayload' = Stored(14, dataSize, shortAt, dropAll)
                     /\ io' = [opened |-> TRUE,
                               written |-> Len(wavBytes') + wavPayload',
                               len |-> Len(wavReq') + dataSize,
                               path |-> "wav", calls |-> 16]
                     /\ sd_drv' = {"SD.open", "File::write", "File::close"}
                     /\ mic_drv' = mic_drv \cup {"free"}
                     /\ recBuf' = "freed"
                     /\ bufFrees' = bufFrees + 1
                     /\ lastRet' = RecordToSDResult(io'.written, io'.len)
                     /\ UNCHANGED cam_drv
    /\ UNCHANGED <<caller, durationMs, totalSamples, samplesRecorded, elapsed, bufHigh>>
    /\ UNCHANGED <<camVars, sdVars, micVars, cntVars>>

----------------------------------------------------------------------------
(* The state after construction (the member initializers of the header).   *)

Init ==
    /\ cam_initialized = FALSE
    /\ cam_sensorType = "CAMS3_SENSOR_UNKNOWN"
    /\ fb = NULL
    /\ fb_len = 0
    /\ sensor = FALSE
    /\ esp_inited = FALSE
    /\ esp_fb_count = 0
    /\ esp_fb_out = {}
    /\ sd_initialized = FALSE
    /\ sd_spiFreq = CAMS3_SD_SPI_FREQ
    /\ sd_spi = FALSE
    /\ sd_fileCounter = 0
    /\ SD_mounted = FALSE
    /\ spi_live = 0
    /\ SD_file = -1
    /\ mic_initialized = FALSE
    /\ mic_sampleRate = CAMS3_MIC_SAMPLE_RATE
    /\ mic_sampleBits = CAMS3_MIC_SAMPLE_BITS
    /\ mic_i2sHandle = FALSE
    /\ i2s_channels = 0
    /\ i2s_bits = 0
    /\ pc = "idle"
    /\ caller = "none"
    /\ durationMs = 0
    /\ totalSamples = 0
    /\ samplesRecorded = 0
    /\ elapsed = 0
    /\ bufHigh = 0
    /\ recBuf = "null"
    /\ bufFrees = 0
    /\ wavReq = <<>>
    /\ wavBytes = <<>>
    /\ wavPayloadReq = 0
    /\ wavPayload = 0
    /\ lastOp = "none"
    /\ beginArgs = NoArgs
    /\ lastRet = FALSE
    /\ io = NoIO
    /\ cam_drv = {}
    /\ sd_drv = {}
    /\ mic_drv = {}
    /\ getsOk = 0
    /\ freesOk = 0

\* camera, SD card and captureToSD
Next ==
    \/ CameraBegin
    \/ CameraDeinit
    \/ CameraGet
    \/ CameraFree
    \/ SdBegin
    \/ SdEnd
    \/ SdWriteFile
    \/ SdAppendFile
    \/ SdSaveFrame
    \/ CaptureToSD

Spec == Init /\ [][Next]_vars

\* microphone, SD card, Mic.record and recordToSD
NextRec ==
    \/ MicBegin
    \/ MicEnd
    \/ SdBegin
    \/ SdEnd
    \/ MicRecord
    \/ MicFreeSamples
    \/ RecordToSD
    \/ RecordRead
    \/ ClockTick
    \/ MicRecordReturn
    \/ RecordToSDFinish

\* The clock keeps advancing while the loop polls, and a loop whose condition
\* is false is left: the calling thread keeps running.
SpecRec ==
    /\ Init
    /\ [][NextRec]_vars
    /\ WF_vars(ClockTick)
    /\ WF_vars(MicRecordReturn)
    /\ WF_vars(RecordToSDFinish)

\* The capacity computation of Mic.record alone: the microphone is Ready at
\* one of the sample rates, and Mic.record is entered with a duration of up to
\* an hour; its loop is not run.
InitCapacity ==
    /\ cam_initialized = FALSE
    /\ cam_sensorType = "CAMS3_SENSOR_UNKNOWN"
    /\ fb = NULL
    /\ fb_len = 0
    /\ sensor = FALSE
    /\ esp_inited = FALSE
    /\ esp_fb_count = 0
    /\ esp_fb_out = {}
    /\ sd_initialized = FALSE
    /\ sd_spiFreq = CAMS3_SD_SPI_FREQ
    /\ sd_spi = FALSE
    /\ sd_fileCounter = 0
    /\ SD_mounted = FALSE
    /\ spi_live = 0
    /\ SD_file = -1
    /\ mic_initialized = TRUE
    /\ mic_sampleRate \in CapacityRates
    /\ mic_sampleBits = CAMS3_MIC_SAMPLE_BITS
    /\ mic_i2sHandle = TRUE
    /\ i2s_channels = 1
    /\ i2s_bits = DataBitWidth(CAMS3_MIC_SAMPLE_BITS)
    /\ pc = "idle"
    /\ caller = "none"
    /\ durationMs = 0
    /\ totalSamples = 0
    /\ samplesRecorded = 0
    /\ elapsed = 0
    /\ bufHigh = 0
    /\ recBuf = "null"
    /\ bufFrees = 0
    /\ wavReq = <<>>
    /\ wavBytes = <<>>
    /\ wavPayloadReq = 0
    /\ wavPayload = 0
    /\ lastOp = "Mic.begin"
    /\ beginArgs = NoArgs
    /\ lastRet = TRUE
    /\ io = NoIO
    /\ cam_drv = {}
    /\ sd_drv = {}
    /\ mic_drv = {"i2s_new_channel", "i2s_channel_init_pdm_rx_mode",
                  "i2s_channel_enable"}
    /\ getsOk = 0
    /\ freesOk = 0

MicRecordLong == MicRecordOf(CapacityDurations)

NextCapacity == MicRecordLong

SpecCapacity == InitCapacity /\ [][NextCapacity]_vars

\* The camera alone, with the calls of get() and free() that returned true
\* counted: any sequence of Camera.begin / get / free / deinit.
NextFrames ==
    \/ CameraBegin
    \/ CameraDeinit
    \/ CountedGet
    \/ CountedFree

SpecFrames == Init /\ [][NextFrames]_vars

\* recordToSD asked for no time at all: record allocates, runs no iteration of
\* its loop and hands back zero samples
RecordToSDZero == RecordToSDOf({0})

\* The library as a whole: the three peripherals brought up by
\* CamS3Library::begin and torn down one by one, frames taken and freed, and
\* the two orchestrated operations.
NextLib ==
    \/ LibBegin
    \/ CameraDeinit
    \/ SdEnd
    \/ MicEnd
    \/ CameraGet
    \/ CameraFree
    \/ CaptureToSD
    \/ RecordToSDZero
    \/ RecordToSDFinish

SpecLib == Init /\ [][NextLib]_vars

\* The three peripherals brought up and torn down directly by the sketch, in
\* any order and with any arguments.
NextBegins ==
    \/ CameraBegin
    \/ CameraDeinit
    \/ SdBegin
    \/ SdEnd
    \/ MicBegin
    \/ MicEnd

SpecBegins == Init /\ [][NextBegins]_vars

\* The microphone alone: begin and end, single reads and the level meters.
NextMic ==
    \/ MicBegin
    \/ MicEnd
    \/ MicRead
    \/ MicReadBytes
    \/ MicGetPeakAmplitude
    \/ MicGetRMSLevel

SpecMic == Init /\ [][NextMic]_vars

\* generateFilename called again and again
NextNames == SdGenerateFilename

SpecNames == Init /\ [][NextNames]_vars

\* one sample asked of a microphone that hears a steady tone: by read, by
\* readBytes and by the two level meters
MicReadOne == MicReadOf({1})
MicReadBytesOne == MicReadBytesOf({SampleBytes})
MicGetPeakAmplitudeOne == MicMeter("Mic.getPeakAmplitude", {1}, {1000})
MicGetRMSLevelOne == MicMeter("Mic.getRMSLevel", {1}, {1000})

\* Mic.record asked for no time at all
MicRecordZero == MicRecordOf({0})

\* Every operation that needs a Ready peripheral, called in any order. Each
\* of the three peripherals is either as constructed or as a successful
\* begin() with its default arguments leaves it (an OV2640 for the camera);
\* nothing has been recorded and no file written yet.
InitGuards ==
    /\ cam_initialized \in BOOLEAN
    /\ cam_sensorType = IF cam_initialized
                        THEN SensorTypeOf("OV2640_PID")
                        ELSE "CAMS3_SENSOR_UNKNOWN"
    /\ fb = NULL
    /\ fb_len = 0
    /\ sensor = cam_initialized
    /\ esp_inited = cam_initialized
    /\ esp_fb_count = IF cam_initialized
                      THEN ConfigFbCount("PIXFORMAT_JPEG", DefaultFbCount)
                      ELSE 0
    /\ esp_fb_out = {}
    /\ sd_initialized \in BOOLEAN
    /\ sd_spiFreq = CAMS3_SD_SPI_FREQ
    /\ sd_spi = sd_initialized
    /\ sd_fileCounter = 0
    /\ SD_mounted = sd_initialized
    /\ spi_live = IF sd_initialized THEN 1 ELSE 0
    /\ SD_file = -1
    /\ mic_initialized \in BOOLEAN
    /\ mic_sampleRate = CAMS3_MIC_SAMPLE_RATE
    /\ mic_sampleBits = CAMS3_MIC_SAMPLE_BITS
    /\ mic_i2sHandle = mic_initialized
    /\ i2s_channels = IF mic_initialized THEN 1 ELSE 0
    /\ i2s_bits = IF mic_initialized THEN DataBitWidth(CAMS3_MIC_SAMPLE_BITS) ELSE 0
    /\ pc = "idle"
    /\ caller = "none"
    /\ durationMs = 0
    /\ totalSamples = 0
    /\ samplesRecorded = 0
    /\ elapsed = 0
    /\ bufHigh = 0
    /\ recBuf = "null"
    /\ bufFrees = 0
    /\ wavReq = <<>>
    /\ wavBytes = <<>>
    /\ wavPayloadReq = 0
    /\ wavPayload = 0
    /\ lastOp = "none"
    /\ beginArgs = NoArgs
    /\ lastRet = FALSE
    /\ io = NoIO
    /\ cam_drv = {}
    /\ sd_drv = {}
    /\ mic_drv = {}
    /\ getsOk = 0
    /\ freesOk = 0

NextGuards ==
    \/ CameraGet
    \/ MicReadOne
    \/ MicReadBytesOne
    \/ MicRecordZero
    \/ MicRecordReturn
    \/ MicGetPeakAmplitudeOne
    \/ MicGetRMSLevelOne
    \/ SdWriteFile
    \/ SdAppendFile
    \/ SdExists
    \/ SdRemove
    \/ SdRename
    \/ SdMkdir
    \/ SdRmdir
    \/ SdSaveFrame
    \/ SdReadFile
    \/ SdGetFileSize

SpecGuards == InitGuards /\ [][NextGuards]_vars

\* The two composite begins and the three teardowns
NextCompose ==
    \/ LibBegin
    \/ LibBeginSd
    \/ CameraDeinit
    \/ SdEnd
    \/ MicEnd

SpecCompose == Init /\ [][NextCompose]_vars

----------------------------------------------------------------------------
(* Properties                                                              *)

\* floor(sampleRate * durationMs / 1000) on the true product, without forming
\* the product: durationMs = 1000 q + r gives sampleRate * q + floor(sampleRate * r / 1000)
TrueCapacity(sampleRate, duration) ==
    sampleRate * (duration \div 1000) + (sampleRate * (duration % 1000)) \div 1000

\* the 32-bit and 16-bit little-endian fields of a header, at a byte offset
U32At(bytes, off) ==
    bytes[off + 1] + 256 * bytes[off + 2] + 65536 * bytes[off + 3]
      + 16777216 * bytes[off + 4]
U16At(bytes, off) == bytes[off + 1] + 256 * bytes[off + 2]

\* C1: when captureToSD has returned, true or false, no frame buffer remains
\* checked out: every frame esp_camera_fb_get handed out has been handed back.
C1_NoFrameOutAfterCapture ==
    lastOp = "captureToSD" => esp_fb_out = {}

\* C7: at most one frame buffer is checked out of the driver pool at any time.
C7_AtMostOneFrameOut ==
    Cardinality(esp_fb_out) <= 1

\* C8: writeFile and appendFile return true exactly when the SD is initialized,
\* the file opened and the driver stored all len bytes; saveFrame and
\* captureToSD return false whenever the write underneath was short.
C8_WriteAllOrNothing ==
    /\ lastOp \in {"Sd.writeFile", "Sd.appendFile"} =>
         (lastRet <=> (sd_initialized /\ io.opened /\ io.written = io.len))
    /\ lastOp \in {"Sd.saveFrame", "captureToSD"} /\ io.written < io.len =>
         lastRet = FALSE

\* C8's case: captureToSD wrote a frame to the caller's path, the card stored
\* only part of it, the file exists with that part, and false was returned.
C8_Witness ==
    /\ lastOp = "captureToSD"
    /\ io.opened
    /\ io.path = "user"
    /\ io.written < io.len
    /\ SD_file = io.written
    /\ lastRet = FALSE

\* C2: every sample buffer Mic.record hands to recordToSD is released exactly
\* once before recordToSD returns, on every exit path. It is stated for the
\* calls that ask for at least one sample, so that it does not rest on what
\* malloc(0) returns.
C2_SamplesFreedOnce ==
    lastOp = "recordToSD" /\ totalSamples > 0 /\ recBuf # "null" =>
        (recBuf = "freed" /\ bufFrees = 1)

\* C3: recordToSD returns true only if no write was cut short, and then the
\* stored file holds exactly 44 + dataSize bytes.
C3_TrueMeansAllStored ==
    lastOp = "recordToSD" /\ lastRet =>
        /\ io.written = io.len
        /\ Len(wavBytes) + wavPayload = 44 + wavPayloadReq

C5_RecordTerminates ==
    /\ (pc = "loop") ~> (pc = "idle")
    /\ [](lastOp \in {"Mic.record", "recordToSD"} /\ recBuf # "null" =>
            (samplesRecorded >= totalSamples \/ elapsed >= durationMs + GraceMs))
    /\ [][pc = "loop" /\ pc' = "loop" =>
            (samplesRecorded < totalSamples /\ elapsed < durationMs + GraceMs)]_vars

\* C5's case: every read failed or delivered nothing, and record returned with
\* no sample at the deadline.
C5_Witness ==
    /\ lastOp = "Mic.record"
    /\ lastRet
    /\ totalSamples > 0
    /\ samplesRecorded = 0
    /\ elapsed >= durationMs + GraceMs

\* C6: samplesRecorded never exceeds totalSamples, the driver never stores past
\* the end of the buffer, and the count is at most
\* sampleRate * durationMs / 1000 + 1024.
C6_NeverPastCapacity ==
    /\ samplesRecorded <= totalSamples
    /\ bufHigh <= totalSamples * SampleBytes
    /\ samplesRecorded <= TrueCapacity(mic_sampleRate, durationMs) + ChunkSamples

\* C6's case: a buffer of more than one chunk was filled to its last sample,
\* the last read asking for the remainder only.
C6_Witness ==
    /\ lastOp = "Mic.record"
    /\ totalSamples > ChunkSamples
    /\ totalSamples % ChunkSamples # 0
    /\ samplesRecorded = totalSamples
    /\ bufHigh = totalSamples * SampleBytes

\* C9: at 16-bit depth the header recordToSD writes carries ChunkSize = 36 + 2N,
\* Subchunk1Size = 16, AudioFormat = 1, NumChannels = 1, SampleRate = R,
\* ByteRate = 2R, BlockAlign = 2, BitsPerSample = 16 and Subchunk2Size = 2N for
\* the N > 0 samples captured, and 2N payload bytes follow; the card holds the
\* same bytes when no write was cut short.
C9_WavHeader ==
    lastOp = "recordToSD" /\ lastRet /\ mic_sampleBits = 16 =>
        LET N == samplesRecorded
            R == mic_sampleRate
        IN  /\ N > 0
            /\ Len(wavReq) = 44
            /\ U32At(wavReq, 4) = 36 + 2 * N
            /\ U32At(wavReq, 16) = 16
            /\ U16At(wavReq, 20) = 1
            /\ U16At(wavReq, 22) = 1
            /\ U32At(wavReq, 24) = R
            /\ U32At(wavReq, 28) = 2 * R
            /\ U16At(wavReq, 32) = 2
            /\ U16At(wavReq, 34) = 16
            /\ U32At(wavReq, 40) = 2 * N
            /\ wavPayloadReq = 2 * N
            /\ (io.written = io.len => wavBytes = wavReq /\ wavPayload = 2 * N)

\* C9's case: fewer samples than the target were captured, and the file was
\* written in full.
C9_Witness ==
    /\ lastOp = "recordToSD"
    /\ lastRet
    /\ mic_sampleBits = 16
    /\ samplesRecorded > 0
    /\ samplesRecorded < totalSamples
    /\ io.written = io.len

\* C10: the capacity Mic.record allocates is floor(sampleRate * durationMs / 1000)
\* on the true product.
C10_CapacityIsTrueQuotient ==
    caller = "Mic.record" => totalSamples = TrueCapacity(mic_sampleRate, durationMs)

\* C11: Mic.record(0, ...) reports zero samples, and whenever a recording
\* captured zero samples (zero duration, failed allocation, or every read failing
\* until the deadline) recordToSD returns false and has made no call on the
\* block store: no SD.open, no write.
C11_ZeroSamplesNoStore ==
    /\ lastOp = "Mic.record" /\ durationMs = 0 => OutSamples = 0
    /\ lastOp = "recordToSD" /\ OutSamples = 0 =>
         (~lastRet /\ io.calls = 0 /\ sd_drv = {})

\* C11's case: microphone and card were Ready, the buffer was allocated, every
\* read failed until the deadline, and recordToSD returned.
C11_Witness ==
    /\ lastOp = "recordToSD"
    /\ mic_initialized /\ sd_initialized
    /\ recBuf = "live"
    /\ totalSamples > 0
    /\ OutSamples = 0
    /\ "i2s_channel_read" \in mic_drv
    /\ elapsed >= durationMs + GraceMs

\* C12: whenever Camera.begin returns false the camera is not Ready and the
\* driver holds nothing from that call; and in every state the driver is
\* initialized exactly when isInitialized() is true.
C12_BeginFailureLeavesNothing ==
    /\ lastOp = "Camera.begin" /\ ~lastRet => (~cam_initialized /\ ~esp_inited)
    /\ esp_inited <=> cam_initialized

\* C13: whenever Mic.begin returns false, whichever driver step failed, every
\* I2S channel the call created has been deleted, _i2sHandle is null and
\* isInitialized() is false.
C13_MicBeginUnwinds ==
    lastOp = "Mic.begin" /\ ~lastRet =>
        (i2s_channels = 0 /\ ~mic_i2sHandle /\ ~mic_initialized)

\* C13's case: the channel was created and configured, enabling it failed, and
\* begin deleted it and returned false.
C13_Witness ==
    /\ lastOp = "Mic.begin"
    /\ ~lastRet
    /\ {"i2s_new_channel", "i2s_channel_enable", "i2s_del_channel"} \subseteq mic_drv

\* C14: whenever Sd.begin returns false (mount failure or no card), the SPI bus
\* object it created has been destroyed and _spi is null, the volume is not
\* mounted, and isInitialized() is false.
C14_SdBeginUnwinds ==
    lastOp = "Sd.begin" /\ ~lastRet =>
        (spi_live = 0 /\ ~sd_spi /\ ~SD_mounted /\ ~sd_initialized)

\* C14's case: the volume mounted, no card was attached, and begin unmounted
\* it, deleted the bus object and returned false.
C14_Witness ==
    /\ lastOp = "Sd.begin"
    /\ ~lastRet
    /\ {"SD.begin", "SD.cardType", "SD.end", "delete SPIClass"} \subseteq sd_drv

\* C15: teardown is idempotent: from any state both of two Camera.deinit() calls
\* in a row return true and leave the camera Uninitialized; Mic.end() and
\* Sd.end() twice in a row leave the peripheral uninitialized. Here: every
\* Camera.deinit() returns true with the camera Uninitialized after it.
C15_DeinitAlwaysSucceeds ==
    lastOp = "Camera.deinit" => (lastRet /\ ~cam_initialized)

\* C15, amended: a Camera.deinit() returns true with the camera Uninitialized
\* unless the driver's esp_camera_deinit failed in it, and then it returns false
\* with the camera still Ready; a Camera.deinit() right after one that returned
\* true returns true, calls no driver function and leaves the camera
\* Uninitialized. After Mic.end() and after Sd.end() the peripheral is
\* uninitialized, and a second call right after the first calls no driver
\* function and changes nothing.
C15_TeardownIdempotent ==
    /\ [](lastOp = "Camera.deinit" =>
            /\ lastRet <=> ~cam_initialized
            /\ ~lastRet => "esp_camera_deinit" \in cam_drv)
    /\ [][lastOp = "Camera.deinit" /\ lastRet /\ lastOp' = "Camera.deinit" =>
            (lastRet' /\ ~cam_initialized' /\ cam_drv' = {} /\ UNCHANGED camVars)]_vars
    /\ [](lastOp = "Mic.end" => ~mic_initialized)
    /\ [][lastOp = "Mic.end" /\ lastOp' = "Mic.end" =>
            (~mic_initialized' /\ mic_drv' = {} /\ UNCHANGED micVars)]_vars
    /\ [](lastOp = "Sd.end" => ~sd_initialized)
    /\ [][lastOp = "Sd.end" /\ lastOp' = "Sd.end" =>
            (~sd_initialized' /\ sd_drv' = {} /\ UNCHANGED sdVars)]_vars

\* C15's case: the camera had been Ready and was deinitialized, and the last
\* call was a second Camera.deinit(), which found it Uninitialized: it returned
\* true and called no driver function.
C15_Witness ==
    /\ lastOp = "Camera.deinit"
    /\ lastRet
    /\ cam_drv = {}
    /\ ~cam_initialized /\ ~esp_inited
    /\ cam_sensorType # "CAMS3_SENSOR_UNKNOWN"

\* C16: after Camera.deinit() returns true the camera is Uninitialized, sensor
\* and fb are null, and the sensor identity is cleared: getSensorType() returns
\* CAMS3_SENSOR_UNKNOWN.
C16_DeinitClearsIdentity ==
    lastOp = "Camera.deinit" /\ lastRet =>
        /\ ~cam_initialized
        /\ ~sensor
        /\ fb = NULL
        /\ cam_sensorType = "CAMS3_SENSOR_UNKNOWN"

\* C17: CamS3Library::begin(initSD, initMic) returns true exactly when the
\* camera is initialized and so is every optional component asked for; it
\* takes no component that was Ready out of Ready (no rollback); and with the
\* camera up, each component asked for is Ready or its begin was tried in this
\* call, whatever the other one did: a failed SD does not keep the microphone
\* from being initialized.
C17_CompositeBegin ==
    /\ [](lastOp = "begin" =>
            /\ lastRet <=> /\ cam_initialized
                           /\ beginArgs.initSD => sd_initialized
                           /\ beginArgs.initMic => mic_initialized
            /\ cam_initialized /\ beginArgs.initSD =>
                 (sd_initialized \/ "SD.begin" \in sd_drv)
            /\ cam_initialized /\ beginArgs.initMic =>
                 (mic_initialized \/ "i2s_new_channel" \in mic_drv))
    /\ [][lastOp' = "begin" =>
            /\ cam_initialized => cam_initialized'
            /\ sd_initialized => sd_initialized'
            /\ mic_initialized => mic_initialized']_vars

\* C17's case: both optional components were asked for, the SD failed, the
\* microphone was initialized after it in the same call, and begin returned
\* false with camera and microphone Ready.
C17_Witness ==
    /\ lastOp = "begin"
    /\ ~lastRet
    /\ beginArgs.initSD /\ beginArgs.initMic
    /\ cam_initialized
    /\ ~sd_initialized /\ "SD.begin" \in sd_drv
    /\ mic_initialized /\ "i2s_channel_enable" \in mic_drv

\* C18: for any sequence of Camera.begin / get / free / deinit calls, the
\* free() calls that returned true never outnumber the get() calls that
\* returned true.
C18_FreesWithinGets ==
    freesOk <= getsOk

\* C18's case: more than one get() returned true and the last free() returned
\* true, bringing the number of frees up to the number of gets.
C18_Witness ==
    /\ lastOp = "Camera.free"
    /\ lastRet
    /\ getsOk > 1
    /\ freesOk = getsOk

\* C19: Camera.free() with a frame in fb hands that frame, which is checked
\* out, back to the driver once, clears fb and returns true; with no frame in
\* fb it calls no driver function, changes nothing and returns false.
C19_FreeOnce ==
    /\ [](fb # NULL => fb \in esp_fb_out)
    /\ [][lastOp' = "Camera.free" =>
            IF fb # NULL
            THEN /\ lastRet'
                 /\ fb' = NULL
                 /\ esp_fb_out' = esp_fb_out \ {fb}
                 /\ cam_drv' = {"esp_camera_fb_return"}
            ELSE /\ ~lastRet'
                 /\ cam_drv' = {}
                 /\ UNCHANGED camVars]_vars

\* C19's case: free() called twice after one get(): the first handed the frame
\* back, the second found no frame and returned false without a driver call.
C19_Witness ==
    /\ lastOp = "Camera.free"
    /\ ~lastRet
    /\ cam_drv = {}
    /\ cam_initialized
    /\ getsOk = 1
    /\ freesOk = 1
    /\ esp_fb_out = {}

\* C20: captureToSD called while the camera or the SD is not Ready, and
\* recordToSD called while the microphone or the SD is not Ready, return false
\* having acquired no frame, allocated no sample buffer and made no storage
\* call: no driver function is called (no esp_camera_fb_get, no malloc, no
\* SD.open) and the state of the three peripherals is unchanged.
C20_NotReadyDoesNothing ==
    [][(\/ lastOp' = "captureToSD" /\ (~cam_initialized \/ ~sd_initialized)
        \/ /\ lastOp' = "recordToSD"
           /\ pc = "idle"
           /\ (~mic_initialized \/ ~sd_initialized))
       => /\ ~lastRet'
          /\ pc' = "idle"
          /\ cam_drv' = {} /\ sd_drv' = {} /\ mic_drv' = {}
          /\ io'.calls = 0
          /\ UNCHANGED <<camVars, sdVars, micVars>>]_vars

\* C20's case: captureToSD was called with the camera and the microphone Ready
\* and the SD not, and returned false without a driver call.
C20_Witness ==
    /\ lastOp = "captureToSD"
    /\ ~lastRet
    /\ cam_initialized /\ mic_initialized
    /\ ~sd_initialized
    /\ cam_drv = {} /\ sd_drv = {}
    /\ esp_fb_out = {}

\* C21: begin() on a peripheral that is already Ready (Camera.begin, Mic.begin,
\* Sd.begin) is a no-op that returns true: it calls no driver function and
\* leaves every field of the peripheral unchanged (configuration, sample rate
\* and bit depth, SPI frequency, handles), whatever arguments it is given.
C21_BeginOnReadyIsNoOp ==
    [][ /\ (lastOp' = "Camera.begin" /\ cam_initialized)
            => (lastRet' = TRUE /\ cam_drv' = {} /\ UNCHANGED camVars)
        /\ (lastOp' = "Sd.begin" /\ sd_initialized)
            => (lastRet' = TRUE /\ sd_drv' = {} /\ UNCHANGED sdVars)
        /\ (lastOp' = "Mic.begin" /\ mic_initialized)
            => (lastRet' = TRUE /\ mic_drv' = {} /\ UNCHANGED micVars) ]_vars

\* each of the three begins has been called on a Ready peripheral: the last
\* call was Mic.begin on a microphone that an earlier begin had configured at
\* 44100 Hz and 32 bits, with the camera and the card Ready as well
C21_Witness ==
    /\ lastOp = "Mic.begin"
    /\ mic_drv = {}
    /\ lastRet = TRUE
    /\ mic_initialized /\ mic_sampleRate = 44100 /\ mic_sampleBits = 32
    /\ cam_initialized
    /\ sd_initialized /\ sd_spiFreq = 20000000

C23_PeakIsMaxAbsolute ==
    (lastOp = "Mic.getPeakAmplitude" /\ io.data # <<>>) =>
        LET Abs(x) == IF x < 0 THEN -x ELSE x
            d == io.data
        IN  /\ \A i \in DOMAIN d : Abs(d[i]) <= lastRet
            /\ \E i \in DOMAIN d : Abs(d[i]) = lastRet

\* C24: after any successful Mic.begin(sampleRate, sampleBits), getSampleBits()
\* is 16 or 32 and equals the data bit width the PDM channel was configured
\* with.
C24_SampleBitsIsConfiguredWidth ==
    mic_initialized =>
        /\ mic_sampleBits \in {16, 32}
        /\ mic_sampleBits = i2s_bits

\* C25: within one process lifetime the file counter increases by exactly one
\* on every generateFilename call, so that any two calls with the same prefix
\* and extension return different names, also when both fall in the same
\* millisecond.
C25_NamesAreUnique ==
    /\ Len(Returned) = sd_fileCounter
    /\ \A i, j \in DOMAIN Returned :
        (/\ i < j
         /\ Returned[i].prefix = Returned[j].prefix
         /\ Returned[i].extension = Returned[j].extension)
        => Returned[i].name # Returned[j].name

\* C26: for every bit depth (16 or 32) and every captured count, the payload
\* bytes recordToSD reads from the sample buffer, dataSize = numSamples *
\* (bitsPerSample / 8), never exceed the bytes Mic.record allocated for it,
\* totalSamples * 2.
C26_PayloadWithinBuffer ==
    (lastOp = "recordToSD" /\ io.opened /\ mic_sampleBits \in {16, 32}) =>
        wavPayloadReq <= totalSamples * SampleBytes

\* C27: no driver call is made on a peripheral that is not Ready. With the
\* microphone not initialized, read and readBytes return -1, record returns
\* null, getPeakAmplitude and getRMSLevel return 0 (they also return 0 when
\* the read fails, with the scratch buffer freed); with the SD not
\* initialized, writeFile, appendFile, exists, remove, rename, mkdir, rmdir and
\* saveFrame return false and readFile and getFileSize return -1; with the
\* camera not initialized, get() returns false.
C27_NotReadyNoDriverCall ==
    [][ /\ (~mic_initialized /\ lastOp' \in {"Mic.read", "Mic.readBytes"})
            => (lastRet' = -1 /\ mic_drv' = {} /\ UNCHANGED micVars)
        /\ (~mic_initialized /\ lastOp' = "Mic.record")
            => (lastRet' = FALSE /\ recBuf' = "null" /\ mic_drv' = {}
                /\ UNCHANGED micVars)
        /\ (~mic_initialized /\ lastOp' \in {"Mic.getPeakAmplitude", "Mic.getRMSLevel"})
            => (lastRet' = 0 /\ mic_drv' = {} /\ UNCHANGED micVars)
        /\ (/\ mic_initialized
            /\ lastOp' \in {"Mic.getPeakAmplitude", "Mic.getRMSLevel"}
            /\ "i2s_channel_read" \in mic_drv'
            /\ ~io'.errOk)
            => (lastRet' = 0 /\ io'.scratch = "freed" /\ "free" \in mic_drv')
        /\ (~sd_initialized /\ lastOp' \in {"Sd.writeFile", "Sd.appendFile",
                "Sd.exists", "Sd.remove", "Sd.rename", "Sd.mkdir", "Sd.rmdir",
                "Sd.saveFrame"})
            => (lastRet' = FALSE /\ sd_drv' = {} /\ UNCHANGED sdVars)
        /\ (~sd_initialized /\ lastOp' \in {"Sd.readFile", "Sd.getFileSize"})
            => (lastRet' = -1 /\ sd_drv' = {} /\ UNCHANGED sdVars)
        /\ (~cam_initialized /\ lastOp' = "Camera.get")
            => (lastRet' = FALSE /\ cam_drv' = {} /\ UNCHANGED camVars) ]_vars

\* nothing is Ready and the card has just been asked for the size of a file:
\* the answer is -1 and the SD object was not called
C27_Witness ==
    /\ ~cam_initialized /\ ~sd_initialized /\ ~mic_initialized
    /\ lastOp = "Sd.getFileSize"
    /\ lastRet = -1
    /\ sd_drv = {}

\* C28: in CamS3Library::begin(initSD) and begin(initSD, initMic) the camera
\* is initialized first, and if it fails the call returns false without
\* attempting Sd.begin or Mic.begin, leaving the SD and the microphone as they
\* were.
C28_CameraFirst ==
    [][ lastOp' \in {"begin", "begin(initSD)"} =>
        /\ ~cam_initialized => "esp_camera_init" \in cam_drv'
        /\ ~cam_initialized' =>
              /\ lastRet' = FALSE
              /\ sd_drv' = {}
              /\ mic_drv' = {}
              /\ UNCHANGED <<sdVars, micVars>> ]_vars

\* begin(true) has just failed at the camera, after the camera had been torn
\* down with the card Ready: the card is still Ready and was not called
C28_Witness ==
    /\ lastOp = "begin(initSD)"
    /\ beginArgs.initSD
    /\ ~cam_initialized
    /\ lastRet = FALSE
    /\ cam_drv # {}
    /\ sd_drv = {}
    /\ sd_initialized

\* C29: in every reachable state the microphone is Ready exactly when its I2S
\* handle is non-null, and the SD is Ready exactly when its SPI bus object is
\* non-null.
C29_ReadyIffHandle ==
    /\ mic_initialized <=> mic_i2sHandle
    /\ sd_initialized <=> sd_spi

\* Mic.begin has failed at i2s_channel_enable, after the channel had been
\* created, while the card is Ready
C29_Witness ==
    /\ lastOp = "Mic.begin"
    /\ lastRet = FALSE
    /\ "i2s_channel_enable" \in mic_drv
    /\ ~mic_initialized /\ ~mic_i2sHandle
    /\ sd_initialized /\ sd_spi

\* C30: in every state reachable through Camera.begin, get, free, deinit and
\* captureToSD, a non-null fb implies that the camera is Ready, and a Ready
\* camera implies a non-null sensor handle.
C30_FrameOnlyWhenReady ==
    /\ fb # NULL => cam_initialized
    /\ cam_initialized => sensor

\* Camera.get() has just checked a frame out of a Ready camera
C30_Witness ==
    /\ lastOp = "Camera.get"
    /\ lastRet = TRUE
    /\ fb # NULL
    /\ cam_initialized
    /\ sensor

====
